---- MODULE Spec2Model ----
(***************************************************************************)
(* A model of wabt's decompiler (src/wabt/src/decompiler.cc).              *)
(*                                                                         *)
(* Text.  A std::string is a sequence of one-character strings, so that    *)
(* size(), insert(0, ..), append, back() and operator+ are Len, \o and     *)
(* indexing.  A Value is a record of its line vector v and its flag        *)
(* needs_bracketing.                                                       *)
(*                                                                         *)
(* Expression renderer.  DecompileExpr renders the children of a node      *)
(* first, in child order, and then dispatches on the node; the model walks *)
(* a tree in that order with the vector of rendered children as a stack:   *)
(* one action per dispatch case pops the node's children and pushes the    *)
(* node's Value.  Every Value is kept for each target_exp_width of Widths  *)
(* side by side: the member's own value 70 and the two widths 40 and 200.  *)
(*                                                                         *)
(* Module walker.  Decompile() is a program counter over the sections of   *)
(* the module with the output string, cur_func and the tracker as state.   *)
(***************************************************************************)
EXTENDS Integers, Sequences, FiniteSets, TLC

VARIABLES
    stack,      \* the Values of the nodes rendered so far and not yet consumed
    last,       \* the last dispatch: its case, the children it took, its result
    nodes,      \* number of nodes rendered so far
    crashed,    \* the widths under which the run has died on an invalid read
    body,       \* the function body's text once Decompile has indented it
    bodydone,   \* whether that has happened
    oob,        \* the widths under which a read past a vector's end has returned
    pc,         \* where Decompile() is
    index,      \* memory_index, global_index, table_index, func_index
    decl,       \* what Decompile() has appended to s for the entity at hand
    ent,        \* the entity at hand, as the module describes it
    cur_func,   \* the member cur_func: 0 for nullptr, else the function's number
    lst         \* the load/store tracker: the locals it holds a layout for

exprvars == <<stack, last, nodes, crashed, body, bodydone, oob>>

walkvars == <<pc, index, decl, ent, cur_func, lst>>

vars == <<stack, last, nodes, crashed, body, bodydone, oob, pc, index, decl, ent, cur_func, lst>>

----------------------------------------------------------------------------
(* Tunables: the members indent_amount and target_exp_width.               *)

indent_amount == 2

target_exp_width == 70

Widths == {40, target_exp_width, 200}

(* Bounds of the exploration.                                              *)

MaxNodes == 4

MaxArgs == 2

MaxStats == 2

MaxDecls == 1

MaxFuncs == 2

MaxParams == 2

MaxResults == 2

(* Widths of the identifiers the naming pass may have produced.            *)
NameWidths == {1, 33, 59}

----------------------------------------------------------------------------
(* Text helpers.                                                           *)

Max(a, b) == IF a >= b THEN a ELSE b

Chars(c, n) == [i \in 1..n |-> c]

Back(s) == s[Len(s)]

\* s with t appended to its last element: v.back().append(t) / v.back() += t
AppendBack(v, t) == SubSeq(v, 1, Len(v) - 1) \o << v[Len(v)] \o t >>

\* s with t inserted in front of its first element: v[0].insert(0, t)
InsertFront(v, t) == << t \o v[1] >> \o Tail(v)

RECURSIVE Flatten(_)
Flatten(ss) == IF ss = <<>> THEN <<>> ELSE Head(ss) \o Flatten(Tail(ss))

RECURSIVE SumOf(_)
SumOf(ns) == IF ns = <<>> THEN 0 ELSE Head(ns) + SumOf(Tail(ns))

RECURSIVE MaxOf(_)
MaxOf(ns) == IF ns = <<>> THEN 0 ELSE Max(Head(ns), MaxOf(Tail(ns)))

----------------------------------------------------------------------------
(* struct Value                                                            *)

Value(v, nb) == [v |-> v, needs_bracketing |-> nb]

\* Value::width(): the longest line, 0 for no line.
Width(val) == MaxOf([i \in 1..Len(val.v) |-> Len(val.v[i])])

Indent(amount) == Chars(" ", amount)

IndentValue(val, amount, first_indent) ==
    [val EXCEPT !.v =
        [i \in 1..Len(val.v) |->
            (IF i # 1 \/ first_indent = <<>> THEN Indent(amount) ELSE first_indent)
                \o val.v[i]]]

\* WrapChild without the fallback for affixes that fit within indent_amount.
WrapChildByWidthOnly(child, prefix, postfix, tw) ==
    LET width == Len(prefix) + Len(postfix) + Width(child)
    IN  IF width < tw
        THEN IF Len(child.v) = 1
             THEN [child EXCEPT !.v = << prefix \o child.v[1] \o postfix >>]
             ELSE [child EXCEPT !.v =
                      AppendBack(IndentValue(child, Len(prefix), prefix).v, postfix)]
        ELSE [child EXCEPT !.v =
                 AppendBack(<<prefix>> \o IndentValue(child, indent_amount, <<>>).v,
                            postfix)]

WrapChild(child, prefix, postfix, tw) ==
    LET width == Len(prefix) + Len(postfix) + Width(child)
    IN  IF width < tw \/ (Len(prefix) <= indent_amount /\ Len(postfix) <= indent_amount)
        THEN IF Len(child.v) = 1
             THEN \* Fits in a single line.
                  [child EXCEPT !.v = << prefix \o child.v[1] \o postfix >>]
             ELSE \* Multiline, but with prefix on same line.
                  [child EXCEPT !.v =
                      AppendBack(IndentValue(child, Len(prefix), prefix).v, postfix)]
        ELSE \* Multiline with prefix on its own line.
             [child EXCEPT !.v =
                 AppendBack(<<prefix>> \o IndentValue(child, indent_amount, <<>>).v,
                            postfix)]

\* BracketIfNeeded that leaves the flag set.
BracketIfNeededKeepsFlag(val, tw) ==
    IF ~val.needs_bracketing THEN val
    ELSE WrapChild(val, <<"(">>, <<")">>, tw)

BracketIfNeeded(val, tw) ==
    IF ~val.needs_bracketing THEN val
    ELSE [WrapChild(val, <<"(">>, <<")">>, tw) EXCEPT !.needs_bracketing = FALSE]

\* WrapBinary that brackets only its left operand.
WrapBinaryLeftOnly(args, infix, indent_right, tw) ==
    LET left  == BracketIfNeeded(args[1], tw)
        right == args[2]
        width == Len(infix) + Width(left) + Width(right)
    IN  IF width < tw /\ Len(left.v) = 1 /\ Len(right.v) = 1
        THEN Value(<< left.v[1] \o infix \o right.v[1] >>, TRUE)
        ELSE Value(AppendBack(left.v, infix)
                     \o (IF indent_right
                         THEN IndentValue(right, indent_amount, <<>>).v
                         ELSE right.v),
                   TRUE)

WrapBinary(args, infix, indent_right, tw) ==
    LET left  == BracketIfNeeded(args[1], tw)
        right == BracketIfNeeded(args[2], tw)
        width == Len(infix) + Width(left) + Width(right)
    IN  IF width < tw /\ Len(left.v) = 1 /\ Len(right.v) = 1
        THEN Value(<< left.v[1] \o infix \o right.v[1] >>, TRUE)
        ELSE Value(AppendBack(left.v, infix)
                     \o (IF indent_right
                         THEN IndentValue(right, indent_amount, <<>>).v
                         ELSE right.v),
                   TRUE)

\* The children of the single-line form, joined by ", ".
RECURSIVE JoinComma(_)
JoinComma(args) ==
    IF args = <<>> THEN <<>>
    ELSE IF Len(args) = 1 THEN args[1].v[1]
    ELSE args[1].v[1] \o <<",", " ">> \o JoinComma(Tail(args))

\* The single-line test of WrapNAry.
NArySingleLine(args, prefix, postfix, tw) ==
    LET total_width == SumOf([i \in 1..Len(args) |-> Width(args[i])])
        multiline   == \E i \in 1..Len(args) : Len(args[i].v) > 1
    IN  ~multiline /\ (total_width + Len(prefix) + Len(postfix) < tw \/ args = <<>>)

WrapNAry(args, prefix, postfix, tw) ==
    LET max_width == MaxOf([i \in 1..Len(args) |-> Width(args[i])])
    IN  IF NArySingleLine(args, prefix, postfix, tw)
        THEN \* Single line.
             Value(<< prefix \o JoinComma(args) \o postfix >>, FALSE)
        ELSE \* Multi-line.
             LET ident_with_name == max_width + Len(prefix) < tw
                 child(i) ==
                     LET c == IndentValue(args[i],
                                  IF ident_with_name THEN Len(prefix) ELSE indent_amount,
                                  IF i = 1 /\ ident_with_name THEN prefix ELSE <<>>)
                     IN  IF i < Len(args) THEN AppendBack(c.v, <<",">>) ELSE c.v
                 lines == Flatten([i \in 1..Len(args) |-> child(i)])
             IN  Value(AppendBack(IF ~ident_with_name THEN <<prefix>> \o lines ELSE lines,
                                  postfix),
                       FALSE)

\* Get: the variable's name, not bracketed.
Get(name) == Value(<<name>>, FALSE)

\* Set: name = child, bracketed when embedded.
Set(child, name, tw) ==
    WrapChild([child EXCEPT !.needs_bracketing = TRUE], name \o <<" ", "=", " ">>, <<>>, tw)

\* Block: name label { ... }
Block(val, name, label) ==
    [val EXCEPT !.v = << name \o <<" ">> \o label \o <<" ", "{">> >>
                        \o IndentValue(val, indent_amount, <<>>).v
                        \o << <<"}">> >>]

\* LoadStore: bracket the address, then append the access to its last line.
LoadStore(val, access, tw) ==
    LET b == BracketIfNeeded(val, tw)
    IN  [b EXCEPT !.v = AppendBack(b.v, access)]

\* Statements that ends every statement with ';'.
StatementsAlwaysSemicolon(args) ==
    Value(Flatten([i \in 1..Len(args) |-> AppendBack(args[i].v, <<";">>)]), FALSE)

\* The Statements case: ';' after every statement that does not end in '}'.
Statements(args) ==
    Value(Flatten([i \in 1..Len(args) |->
                     IF Back(Back(args[i].v)) # "}"
                     THEN AppendBack(args[i].v, <<";">>)
                     ELSE args[i].v]),
          FALSE)

\* The If case's layout test.
IfMultiline(args, tw) ==
    LET ifs   == args[1]
        thenp == args[2]
        has_else == Len(args) = 3
        width == Width(ifs) + Width(thenp) + (IF has_else THEN Width(args[3]) ELSE 0)
    IN  \/ Len(ifs.v) > 1
        \/ Len(thenp.v) > 1
        \/ has_else /\ Len(args[3].v) > 1
        \/ width > tw

\* v[0] of a Value; of a Value without lines it reads past the vector's end, and
\* read stands for whatever that read gives.
Line0(val, read) == IF Len(val.v) > 0 THEN val.v[1] ELSE read

\* Whether the If case reads v[0] of a Value that has no line.
IfReadsPastEnd(args, tw) ==
    /\ ~IfMultiline(args, tw)
    /\ \E i \in 1..Len(args) : Len(args[i].v) = 0

If(args, tw, read) ==
    LET ifs   == args[1]
        thenp == args[2]
        has_else == Len(args) = 3
    IN  IF IfMultiline(args, tw)
        THEN Value(AppendBack(InsertFront(ifs.v, <<"i", "f", " ", "(">>), <<")", " ", "{">>)
                     \o IndentValue(thenp, indent_amount, <<>>).v
                     \o (IF has_else
                         THEN << <<"}", " ", "e", "l", "s", "e", " ", "{">> >>
                                \o IndentValue(args[3], indent_amount, <<>>).v
                         ELSE <<>>)
                     \o << <<"}">> >>,
                   ifs.needs_bracketing)
        ELSE Value(<< <<"i", "f", " ", "(">> \o Line0(ifs, read) \o <<")", " ", "{", " ">>
                        \o Line0(thenp, read) \o <<" ", "}">>
                        \o (IF has_else
                            THEN <<" ", "e", "l", "s", "e", " ", "{", " ">>
                                   \o Line0(args[3], read) \o <<" ", "}">>
                            ELSE <<>>) >>,
                   FALSE)

----------------------------------------------------------------------------
(* The texts the collaborators supply: names from the naming pass, opcode  *)
(* tokens, labels, the tracker's access text.                              *)

\* An identifier of n characters.
Name(n) == Chars("a", n)

Names == {Name(n) : n \in NameWidths}

\* cat(" ", OpcodeToToken(opcode), " ") of a Binary or Compare.
Infixes == { <<" ", "+", " ">> }

\* OpcodeToToken(opcode) + "(" of a Unary.
UnaryPrefix == <<"c", "l", "z", "(">>

\* name + "(" of the default case (a Call).
CallPrefix == <<"f", "(">>

ReturnPrefix == <<"r", "e", "t", "u", "r", "n", " ">>

\* "[offset]:type" of a load or store the tracker has no field for.
Access == <<"[", "4", "]", ":", "i", "n", "t">>

\* cat("var ", LocalDecl(name, type), " = ") of a DeclInit.
DeclInitPrefix == <<"v", "a", "r", " ", "x", ":", "i", "n", "t", " ", "=", " ">>

BlockName == <<"b", "l", "o", "c", "k">>

Label == <<"L">>

BrIfPrefix == <<"i", "f", " ", "(">>

\* cat(") ", jmp, " ", label) of a BrIf out of a block.
BrIfPostfix == <<")", " ", "b", "r", "e", "a", "k", " ", "L">>

\* What a read past the end of a line vector may give, when it gives anything.
OobReads == { <<>>, <<"?">> }

----------------------------------------------------------------------------
(* The expression renderer as a walk over the tree, children first.        *)

\* A rendered node: kind "stats" for a Statements node, "expr" for any other, and
\* its Value under every width.
Entry(kind, val) == [kind |-> kind, val |-> val]

Expr(val) == Entry("expr", val)

NoEntry == Entry("none", [w \in Widths |-> Value(<<>>, FALSE)])

\* The last k rendered nodes: the children of the node dispatched next.
Top(k) == SubSeq(stack, Len(stack) - k + 1, Len(stack))

Vals(args, w) == [i \in 1..Len(args) |-> args[i].val[w]]

AllExpr(args) == \A i \in 1..Len(args) : args[i].kind = "expr"

\* The AST builder wraps a branch of an If in a Statements node unless it is one
\* expression; the else branch exists only when it is not empty.
ThenBranch(e) == e.kind \in {"expr", "stats"}

ElseBranch(e) == e.kind = "expr" \/ (e.kind = "stats" /\ e.val[target_exp_width].v # <<>>)

Running == crashed = {} /\ ~bodydone

\* The node's children leave the vector, its Value enters it.
DispatchReading(k, op, res, past_end) ==
    /\ stack' = SubSeq(stack, 1, Len(stack) - k) \o <<res>>
    /\ last' = [op |-> op, args |-> Top(k), res |-> res]
    /\ nodes' = nodes + 1
    /\ oob' = oob \cup past_end
    /\ UNCHANGED <<crashed, body, bodydone>>
    /\ UNCHANGED walkvars

Dispatch(k, op, res) == DispatchReading(k, op, res, {})

CanDispatch(k) == Running /\ nodes < MaxNodes /\ Len(stack) >= k

\* LocalGet, GlobalGet, LocalTee without operand: a leaf.
GetExpr ==
    /\ CanDispatch(0)
    /\ \E name \in Names : Dispatch(0, "Get", Expr([w \in Widths |-> Get(name)]))

\* LocalSet, GlobalSet, LocalTee with operand.
SetExpr ==
    /\ CanDispatch(1)
    /\ AllExpr(Top(1))
    /\ Dispatch(1, "Set", Expr([w \in Widths |-> Set(Top(1)[1].val[w], <<"x">>, w)]))

\* Binary, Compare.
BinaryExpr ==
    /\ CanDispatch(2)
    /\ AllExpr(Top(2))
    /\ \E infix \in Infixes :
          Dispatch(2, "Binary",
                   Expr([w \in Widths |-> WrapBinary(Vals(Top(2), w), infix, FALSE, w)]))

UnaryExpr ==
    /\ CanDispatch(1)
    /\ AllExpr(Top(1))
    /\ Dispatch(1, "Unary",
                Expr([w \in Widths |-> WrapChild(Top(1)[1].val[w], UnaryPrefix, <<")">>, w)]))

LoadExpr ==
    /\ CanDispatch(1)
    /\ AllExpr(Top(1))
    /\ Dispatch(1, "Load", Expr([w \in Widths |-> LoadStore(Top(1)[1].val[w], Access, w)]))

StoreExpr ==
    /\ CanDispatch(2)
    /\ AllExpr(Top(2))
    /\ Dispatch(2, "Store",
                Expr([w \in Widths |->
                        WrapBinary(<< LoadStore(Top(2)[1].val[w], Access, w),
                                      Top(2)[2].val[w] >>,
                                   <<" ", "=", " ">>, TRUE, w)]))

IfExpr ==
    \E k \in {2, 3} :
        /\ CanDispatch(k)
        /\ Top(k)[1].kind = "expr"
        /\ ThenBranch(Top(k)[2])
        /\ k = 3 => ElseBranch(Top(k)[3])
        /\ LET dies == {w \in Widths : IfReadsPastEnd(Vals(Top(k), w), w)}
           IN  \/ \E read \in OobReads :
                     DispatchReading(k, "If",
                         Expr([w \in Widths |-> If(Vals(Top(k), w), w, read)]), dies)
               \/ /\ dies # {}
                  /\ crashed' = dies
                  /\ UNCHANGED <<stack, last, nodes, body, bodydone, oob>>
                  /\ UNCHANGED walkvars

\* Block, Loop.
BlockExpr ==
    /\ CanDispatch(1)
    /\ Dispatch(1, "Block", Expr([w \in Widths |-> Block(Top(1)[1].val[w], BlockName, Label)]))

BrIfExpr ==
    /\ CanDispatch(1)
    /\ AllExpr(Top(1))
    /\ Dispatch(1, "BrIf",
                Expr([w \in Widths |-> WrapChild(Top(1)[1].val[w], BrIfPrefix, BrIfPostfix, w)]))

\* Return, EndReturn.
ReturnExpr ==
    \E k \in 0..MaxArgs :
        /\ CanDispatch(k)
        /\ AllExpr(Top(k))
        /\ Dispatch(k, "Return",
                    Expr([w \in Widths |-> WrapNAry(Vals(Top(k), w), ReturnPrefix, <<>>, w)]))

DropExpr ==
    /\ CanDispatch(1)
    /\ AllExpr(Top(1))
    /\ Dispatch(1, "Drop", Expr(Top(1)[1].val))

\* The default case: Call, Convert and the other kinds.
CallExpr ==
    \E k \in 0..MaxArgs :
        /\ CanDispatch(k)
        /\ AllExpr(Top(k))
        /\ Dispatch(k, "Call",
                    Expr([w \in Widths |-> WrapNAry(Vals(Top(k), w), CallPrefix, <<")">>, w)]))

DeclInitNode ==
    /\ CanDispatch(1)
    /\ AllExpr(Top(1))
    /\ Dispatch(1, "DeclInit",
                Expr([w \in Widths |-> WrapChild(Top(1)[1].val[w], DeclInitPrefix, <<>>, w)]))

StatementsNode ==
    \E k \in 0..MaxStats :
        /\ CanDispatch(k)
        /\ AllExpr(Top(k))
        /\ Dispatch(k, "Statements",
                    Entry("stats", [w \in Widths |-> Statements(Vals(Top(k), w))]))

\* Decompile() on the body of a function: the root is a Statements node.
FuncBody ==
    /\ Running
    /\ Len(stack) = 1
    /\ stack[1].kind = "stats"
    /\ body' = [w \in Widths |-> IndentValue(stack[1].val[w], indent_amount, <<>>).v]
    /\ bodydone' = TRUE
    /\ stack' = <<>>
    /\ UNCHANGED <<last, nodes, crashed, oob>>
    /\ UNCHANGED walkvars

InitExpr ==
    /\ stack = <<>>
    /\ last = [op |-> "none", args |-> <<>>, res |-> NoEntry]
    /\ nodes = 0
    /\ crashed = {}
    /\ body = [w \in Widths |-> <<>>]
    /\ bodydone = FALSE
    /\ oob = {}

NextExpr ==
    \/ GetExpr
    \/ SetExpr
    \/ BinaryExpr
    \/ UnaryExpr
    \/ LoadExpr
    \/ StoreExpr
    \/ IfExpr
    \/ BlockExpr
    \/ BrIfExpr
    \/ ReturnExpr
    \/ DropExpr
    \/ CallExpr
    \/ DeclInitNode
    \/ StatementsNode
    \/ FuncBody

----------------------------------------------------------------------------
(* The module walker, Decompile().  The module is read as the walk reaches *)
(* it: each entity's import and export status, a function's signature and  *)
(* what the tracker finds in its body are drawn when its turn comes.  decl *)
(* holds the text appended to s since the entity at hand began.            *)

\* What the tracker holds: a layout for a local, found in a function's body.
Layout(f, local) == [func |-> f, local |-> local]

\* lst.Track(root); lst.CheckLayouts(): the layouts found in function f are added.
Track(l, f, structs) == l \cup {Layout(f, local) : local \in structs}

\* lst.GenStruct(name): the struct text of a local the tracker has a layout for.
GenStruct(l, name) ==
    IF \E e \in l : e.local = name THEN <<"{", " ", "x", ":", "i", "n", "t", " ", "}">> ELSE <<>>

\* lst.Clear()
Clear(l) == {}

\* IndexToAlphaName(i) for the first parameters.
IndexToAlphaName(i) == <<"a", "b", "c", "d">>[i + 1]

\* The local a function body declares.
BodyLocal == "v"

\* The locals the tracker may find a layout for.
StructLocals == {"a", BodyLocal}

TypeName == <<"i", "n", "t">>

LocalDecl(l, name) ==
    LET struc == GenStruct(l, name)
    IN  <<name>> \o <<":">> \o (IF struc = <<>> THEN TypeName ELSE struc)

\* CheckImportExport with the two prefixes in the other order.
CheckImportExportImportFirst(s, is_import, is_export) ==
    s \o (IF is_import THEN <<"i", "m", "p", "o", "r", "t", " ">> ELSE <<>>)
      \o (IF is_export THEN <<"e", "x", "p", "o", "r", "t", " ">> ELSE <<>>)

CheckImportExport(s, is_import, is_export) ==
    s \o (IF is_export THEN <<"e", "x", "p", "o", "r", "t", " ">> ELSE <<>>)
      \o (IF is_import THEN <<"i", "m", "p", "o", "r", "t", " ">> ELSE <<>>)

\* InitExp: the single line of a constant expression.
InitExp == Get(<<"0">>).v[1]

\* BinaryToString for bytes of a data segment: printable ones as they are, the
\* others as a backslash and two hex digits.
s_hexdigits == <<"0", "1", "2", "3", "4", "5", "6", "7", "8", "9", "a", "b", "c", "d", "e", "f">>

Printable == [c \in {72, 105} |-> IF c = 72 THEN "H" ELSE "i"]

RECURSIVE BinaryBody(_)
BinaryBody(in) ==
    IF in = <<>> THEN <<>>
    ELSE (IF Head(in) \in DOMAIN Printable
          THEN <<Printable[Head(in)]>>
          ELSE <<"\\", s_hexdigits[(Head(in) \div 16) + 1], s_hexdigits[(Head(in) % 16) + 1]>>)
         \o BinaryBody(Tail(in))

BinaryToString(in) == <<"\"">> \o BinaryBody(in) \o <<"\"">>

SampleData == <<72, 105, 0>>

RECURSIVE Params(_, _)
Params(l, n) ==
    IF n = 0 THEN <<>>
    ELSE Params(l, n - 1) \o (IF n > 1 THEN <<",", " ">> ELSE <<>>)
           \o LocalDecl(l, IndexToAlphaName(n - 1))

RECURSIVE ResultTypes(_)
ResultTypes(n) ==
    IF n = 0 THEN <<>>
    ELSE ResultTypes(n - 1) \o (IF n > 1 THEN <<",", " ">> ELSE <<>>) \o TypeName

Results(n) ==
    IF n = 0 THEN <<>>
    ELSE IF n = 1 THEN <<":">> \o TypeName
    ELSE <<":", "(">> \o ResultTypes(n) \o <<")">>

\* The Decl case of DecompileExpr: it reads cur_func and the tracker.
Decl(l, name) == Value(<< <<"v", "a", "r", " ">> \o LocalDecl(l, name) >>, FALSE)

\* DecompileExpr on the root of a function body of n declarations.
BodyValue(l, n) == Statements([i \in 1..n |-> Decl(l, BodyLocal)])

\* for (auto& stat : val.v) { s += stat; s += "\n"; }
RECURSIVE Lines(_)
Lines(v) == IF v = <<>> THEN <<>> ELSE Head(v) \o <<"\n">> \o Lines(Tail(v))

NoEnt == [kind |-> "none"]

Decl4(kind, is_import, is_export) ==
    [kind |-> kind, imported |-> is_import, exported |-> is_export]

MemoryDecl ==
    /\ pc = "memories"
    /\ index < MaxDecls
    /\ \E is_import \in BOOLEAN, is_export \in BOOLEAN :
          /\ decl' = CheckImportExport(<<>>, is_import, is_export)
                       \o <<"m", "e", "m", "o", "r", "y", " ", "m">>
                       \o (IF ~is_import THEN <<"(", "i", "n", "i", "t", "i", "a", "l", ":", " ", "1", ",", " ", "m", "a", "x", ":", " ", "2", ")">> ELSE <<>>)
                       \o <<";", "\n">>
          /\ ent' = Decl4("memory", is_import, is_export)
    /\ index' = index + 1
    /\ UNCHANGED <<pc, cur_func, lst>>
    /\ UNCHANGED exprvars

GlobalDecl ==
    /\ pc = "globals"
    /\ index < MaxDecls
    /\ \E is_import \in BOOLEAN, is_export \in BOOLEAN :
          /\ decl' = CheckImportExport(<<>>, is_import, is_export)
                       \o <<"g", "l", "o", "b", "a", "l", " ", "g", ":">> \o TypeName
                       \o (IF ~is_import THEN <<" ", "=", " ">> \o InitExp ELSE <<>>)
                       \o <<";", "\n">>
          /\ ent' = Decl4("global", is_import, is_export)
    /\ index' = index + 1
    /\ UNCHANGED <<pc, cur_func, lst>>
    /\ UNCHANGED exprvars

TableDecl ==
    /\ pc = "tables"
    /\ index < MaxDecls
    /\ \E is_import \in BOOLEAN, is_export \in BOOLEAN :
          /\ decl' = CheckImportExport(<<>>, is_import, is_export)
                       \o <<"t", "a", "b", "l", "e", " ", "t", ":", "f", "u", "n", "c", "r", "e", "f">>
                       \o (IF ~is_import THEN <<"(", "m", "i", "n", ":", " ", "1", ",", " ", "m", "a", "x", ":", " ", "2", ")">> ELSE <<>>)
                       \o <<";", "\n">>
          /\ ent' = Decl4("table", is_import, is_export)
    /\ index' = index + 1
    /\ UNCHANGED <<pc, cur_func, lst>>
    /\ UNCHANGED exprvars

DataDecl ==
    /\ pc = "data"
    /\ index < MaxDecls
    /\ decl' = <<"d", "a", "t", "a", " ", "d", "(", "o", "f", "f", "s", "e", "t", ":", " ">> \o InitExp \o <<")", " ", "=", " ">> \o BinaryToString(SampleData)
                 \o <<";", "\n">>
    /\ ent' = [kind |-> "data"]
    /\ index' = index + 1
    /\ UNCHANGED <<pc, cur_func, lst>>
    /\ UNCHANGED exprvars

\* The end of a section: a blank line if it was not empty.
SectionEnd ==
    /\ pc \in {"memories", "globals", "tables", "data"}
    /\ decl' = IF index > 0 THEN <<"\n">> ELSE <<>>
    /\ ent' = NoEnt
    /\ pc' = CASE pc = "memories" -> "globals"
               [] pc = "globals" -> "tables"
               [] pc = "tables" -> "data"
               [] OTHER -> "funcs"
    /\ index' = 0
    /\ UNCHANGED <<cur_func, lst>>
    /\ UNCHANGED exprvars

\* cur_func = f; CheckImportExport; the AST and the tracker unless imported.
FuncBegin ==
    /\ pc = "funcs"
    /\ index < MaxFuncs
    /\ \E is_import \in BOOLEAN, is_export \in BOOLEAN,
          nparams \in 0..MaxParams, nresults \in 0..MaxResults,
          structs \in SUBSET StructLocals, nstats \in 0..MaxStats :
          /\ is_import => structs = {} /\ nstats = 0
          /\ cur_func' = index + 1
          /\ decl' = CheckImportExport(<<>>, is_import, is_export)
          /\ lst' = IF ~is_import THEN Track(lst, index + 1, structs) ELSE lst
          /\ ent' = [kind |-> "func", imported |-> is_import, exported |-> is_export,
                     nparams |-> nparams, nresults |-> nresults, structs |-> structs,
                     nstats |-> nstats, constructed |-> ~is_import, tracked |-> ~is_import]
    /\ pc' = "func_sig"
    /\ UNCHANGED index
    /\ UNCHANGED exprvars

\* "function name(params)results"
FuncSignature ==
    /\ pc = "func_sig"
    /\ decl' = decl \o <<"f", "u", "n", "c", "t", "i", "o", "n", " ", "f", "(">> \o Params(lst, ent.nparams) \o <<")">>
                 \o Results(ent.nresults)
    /\ pc' = "func_emit"
    /\ UNCHANGED <<index, ent, cur_func, lst>>
    /\ UNCHANGED exprvars

\* ";" or the body between braces.
FuncEmit ==
    /\ pc = "func_emit"
    /\ decl' = IF ent.imported
               THEN decl \o <<";">>
               ELSE decl \o <<" ", "{", "\n">>
                      \o Lines(IndentValue(BodyValue(lst, ent.nstats), indent_amount, <<>>).v)
                      \o <<"}">>
    /\ pc' = "func_end"
    /\ UNCHANGED <<index, ent, cur_func, lst>>
    /\ UNCHANGED exprvars

\* The end of a function's turn without lst.Clear().
FuncEndKeepsTracker ==
    /\ pc = "func_end"
    /\ decl' = decl \o <<"\n", "\n">>
    /\ index' = index + 1
    /\ pc' = "funcs"
    /\ UNCHANGED <<ent, cur_func, lst>>
    /\ UNCHANGED exprvars

\* s += "\n\n"; mc.EndFunc(); lst.Clear(); func_index++
FuncEnd ==
    /\ pc = "func_end"
    /\ decl' = decl \o <<"\n", "\n">>
    /\ lst' = Clear(lst)
    /\ index' = index + 1
    /\ pc' = "funcs"
    /\ UNCHANGED <<ent, cur_func>>
    /\ UNCHANGED exprvars

\* return s
Return ==
    /\ pc = "funcs"
    /\ pc' = "done"
    /\ UNCHANGED <<index, decl, ent, cur_func, lst>>
    /\ UNCHANGED exprvars

InitWalk ==
    /\ pc = "memories"
    /\ index = 0
    /\ decl = <<>>
    /\ ent = NoEnt
    /\ cur_func = 0
    /\ lst = {}

NextWalk ==
    \/ MemoryDecl
    \/ GlobalDecl
    \/ TableDecl
    \/ DataDecl
    \/ SectionEnd
    \/ FuncBegin
    \/ FuncSignature
    \/ FuncEmit
    \/ FuncEnd
    \/ Return

----------------------------------------------------------------------------
(* Two specifications: the expression renderer on its own, and the module  *)
(* walker on its own.                                                      *)

Init == InitExpr /\ InitWalk

Next == NextExpr

Spec == Init /\ [][Next]_vars

SpecModule == Init /\ [][NextWalk]_vars

----------------------------------------------------------------------------
(* Helpers of the properties.                                              *)

CountChar(line, c) == Cardinality({i \in 1..Len(line) : line[i] = c})

\* How often character c occurs in the lines of a Value.
CountIn(val, c) == SumOf([i \in 1..Len(val.v) |-> CountChar(val.v[i], c)])

StartsWith(s, p) == Len(s) >= Len(p) /\ SubSeq(s, 1, Len(p)) = p

EndsWith(s, p) == Len(s) >= Len(p) /\ SubSeq(s, Len(s) - Len(p) + 1, Len(s)) = p

Contains(s, sub) ==
    \E i \in 1..(Len(s) - Len(sub) + 1) : SubSeq(s, i, i + Len(sub) - 1) = sub

Flag(val) == IF val.needs_bracketing THEN 1 ELSE 0

\* Every rendered node the state holds.
Entries ==
    {stack[i] : i \in 1..Len(stack)}
        \cup {last.args[i] : i \in 1..Len(last.args)}
        \cup (IF last.op = "none" THEN {} ELSE {last.res})

NAryPrefix(op) == IF op = "Call" THEN CallPrefix ELSE ReturnPrefix

NAryPostfix(op) == IF op = "Call" THEN <<")">> ELSE <<>>

\* The tokens of a text: whitespace separates, a punctuation character is a token.
Punct == {"(", ")", ",", ";", "{", "}", "[", "]", ":", "=", "+"}

IsWord(c) == c \notin Punct /\ c \notin {" ", "\n"}

\* Where the tokens of a text begin.
TokenStarts(text) ==
    {i \in 1..Len(text) :
        \/ text[i] \in Punct
        \/ IsWord(text[i]) /\ (i = 1 \/ ~IsWord(text[i - 1]))}

\* The token that begins at i.
TokenAt(text, i) ==
    IF text[i] \in Punct THEN <<text[i]>>
    ELSE SubSeq(text, i,
                CHOOSE j \in i..Len(text) :
                    /\ \A k \in i..j : IsWord(text[k])
                    /\ j = Len(text) \/ ~IsWord(text[j + 1]))

Tokenize(text) ==
    LET starts == TokenStarts(text)
        nth(k) == CHOOSE i \in starts : Cardinality({j \in starts : j < i}) = k - 1
    IN  [k \in 1..Cardinality(starts) |-> TokenAt(text, nth(k))]

Tokens(v) == Tokenize(Lines(v))

----------------------------------------------------------------------------
(* C1.  An operand of WrapBinary (Binary, Compare, Store) is               *)
(* wrapped in '(' ')' in the parent's text if and only if its              *)
(* needs_bracketing was true when its producer returned it; an argument of *)
(* WrapNAry (Call, Return and the other n-ary kinds) is never wrapped,     *)
(* whatever its flag.                                                      *)
C1_BinaryBracketsNAryDoesNot ==
    \A w \in Widths :
        LET a == Vals(last.args, w)
            r == last.res.val[w]
        IN  /\ last.op \in {"Binary", "Store"} =>
                 /\ \A c \in {"(", ")"} :
                       CountIn(r, c) = CountIn(a[1], c) + CountIn(a[2], c)
                                          + Flag(a[1]) + Flag(a[2])
                 /\ StartsWith(r.v[1],
                        (IF a[1].needs_bracketing THEN <<"(">> ELSE <<>>) \o a[1].v[1])
                 /\ EndsWith(Back(r.v),
                        Back(a[2].v) \o (IF a[2].needs_bracketing THEN <<")">> ELSE <<>>))
            /\ last.op \in {"Call", "Return"} =>
                 \A c \in {"(", ")"} :
                    CountIn(r, c) = CountChar(NAryPrefix(last.op), c)
                                      + CountChar(NAryPostfix(last.op), c)
                                      + SumOf([i \in 1..Len(a) |-> CountIn(a[i], c)])

\* C1's case: a binary with one operand that asks for brackets and one that does not.
C1_Witness ==
    /\ last.op = "Binary"
    /\ last.args[1].val[target_exp_width].needs_bracketing
    /\ ~last.args[2].val[target_exp_width].needs_bracketing

(* C1 as stated: also an argument of a call is wrapped exactly when its    *)
(* needs_bracketing was true.                                              *)
C1_Original ==
    \A w \in Widths :
        LET a == Vals(last.args, w)
            r == last.res.val[w]
        IN  /\ last.op \in {"Binary", "Store"} =>
                 \A c \in {"(", ")"} :
                    CountIn(r, c) = CountIn(a[1], c) + CountIn(a[2], c)
                                       + Flag(a[1]) + Flag(a[2])
            /\ last.op \in {"Call", "Return"} =>
                 \A c \in {"(", ")"} :
                    CountIn(r, c) = CountChar(NAryPrefix(last.op), c)
                                      + CountChar(NAryPostfix(last.op), c)
                                      + SumOf([i \in 1..Len(a) |-> CountIn(a[i], c) + Flag(a[i])])

(* C2.  With every name shorter than target_exp_width - 10, no line of an  *)
(* indented function body is wider than target_exp_width (no atom is       *)
(* longer than the budget, so no line is excused).                         *)
C2_WidthHeuristic ==
    (bodydone /\ oob = {} /\ \A n \in NameWidths : n < target_exp_width - 10)
        => \A i \in 1..Len(body[target_exp_width]) :
              Len(body[target_exp_width][i]) <= target_exp_width

(* C3.  A tree rendered with target_exp_width 40 and with 200 gives the    *)
(* same tokens in the same order.                                          *)
C3_WidthSwapKeepsTokens ==
    /\ crashed \cap {40, 200} = {}
    /\ \A e \in Entries : Tokens(e.val[40].v) = Tokens(e.val[200].v)
    /\ Tokens(body[40]) = Tokens(body[200])

(* C4.  Every Value has at least one line, so that no consumer reads a     *)
(* first or last line that does not exist.                                 *)
C4_EveryValueHasALine ==
    /\ \A e \in Entries : \A w \in Widths : Len(e.val[w].v) >= 1
    /\ oob = {}
    /\ crashed = {}

(* C5.  In the Value of a Statements node the last line of every child     *)
(* ends with ';' or '}', and ';' was appended exactly when the child's     *)
(* last line did not already end with '}'.                                 *)
C5_StatementTerminators ==
    last.op = "Statements" =>
        \A w \in Widths :
            LET a == Vals(last.args, w)
                r == last.res.val[w]
                end(i) == SumOf([j \in 1..i |-> Len(a[j].v)])
            IN  /\ Len(r.v) = end(Len(a))
                /\ \A i \in 1..Len(a) :
                      /\ Back(r.v[end(i)]) \in {";", "}"}
                      /\ r.v[end(i)] = IF Back(Back(a[i].v)) = "}"
                                       THEN Back(a[i].v)
                                       ELSE Back(a[i].v) \o <<";">>

\* C5's case: two statements, one ending in '}' and one not.
C5_Witness ==
    /\ last.op = "Statements"
    /\ Len(last.args) = 2
    /\ \E i, j \in 1..2 :
          /\ Back(Back(last.args[i].val[target_exp_width].v)) = "}"
          /\ Back(Back(last.args[j].val[target_exp_width].v)) # "}"

(* C6.  WrapNAry gives the single-line form exactly when args is empty, or *)
(* no child is multi-line and prefix + child widths + the ", " separators  *)
(* + postfix is below target_exp_width.                                    *)
C6_SingleLineExactlyWhenItFits ==
    last.op \in {"Call", "Return"} =>
        LET a == Vals(last.args, target_exp_width)
            r == last.res.val[target_exp_width]
            prefix == NAryPrefix(last.op)
            postfix == NAryPostfix(last.op)
            fits == \/ a = <<>>
                    \/ /\ \A i \in 1..Len(a) : Len(a[i].v) <= 1
                       /\ Len(prefix) + SumOf([i \in 1..Len(a) |-> Width(a[i])])
                            + 2 * (Len(a) - 1) + Len(postfix) < target_exp_width
        IN  fits <=> r = Value(<< prefix \o JoinComma(a) \o postfix >>, FALSE)

(* C8.  BracketIfNeeded is idempotent: twice is once; a Value without the  *)
(* flag is left as it is, a Value with it gets one '(' and one ')' around  *)
(* it and loses the flag.                                                  *)
C8_BracketIfNeededIdempotent ==
    \A e \in Entries : \A w \in Widths :
        LET val == e.val[w]
            once == BracketIfNeeded(val, w)
        IN  val.v # <<>> =>
              /\ BracketIfNeeded(once, w) = once
              /\ ~val.needs_bracketing => once = val
              /\ val.needs_bracketing =>
                   /\ ~once.needs_bracketing
                   /\ CountIn(once, "(") = CountIn(val, "(") + 1
                   /\ CountIn(once, ")") = CountIn(val, ")") + 1
                   /\ Head(once.v[1]) = "("
                   /\ Back(Back(once.v)) = ")"

\* C8's case: a load has bracketed a multi-line address that asked for it.
C8_Witness ==
    /\ last.op = "Load"
    /\ last.args[1].val[target_exp_width].needs_bracketing
    /\ Len(last.args[1].val[target_exp_width].v) > 1

(* C10.  With indent_amount = 2 BracketIfNeeded keeps the number of lines: *)
(* one line becomes '(' line ')'; of several lines the first gets '(' in   *)
(* front, every other one space, and the last ')' at its end, however wide *)
(* the Value is.                                                           *)
C10_BracketKeepsLineCount ==
    \A e \in Entries : \A w \in Widths :
        LET val == e.val[w]
            b == BracketIfNeeded(val, w)
            n == Len(val.v)
        IN  (val.needs_bracketing /\ n >= 1) =>
              /\ Len(b.v) = n
              /\ \A i \in 1..n :
                    b.v[i] = (IF i = 1 THEN <<"(">> ELSE <<" ">>) \o val.v[i]
                                \o (IF i = n THEN <<")">> ELSE <<>>)

\* C10's case: a load has bracketed an address too wide for '(' and ')' to fit.
C10_Witness ==
    /\ last.op = "Load"
    /\ last.args[1].val[target_exp_width].needs_bracketing
    /\ Width(last.args[1].val[target_exp_width]) + 2 >= target_exp_width
    /\ Len(last.res.val[target_exp_width].v) = Len(last.args[1].val[target_exp_width].v)

----------------------------------------------------------------------------
(* The module walker's properties.                                         *)

\* Decompile() is working on a function: between cur_func = f and the end of its turn.
InFunction == pc \in {"func_sig", "func_emit", "func_end"}

\* The signature or the body has been appended for the function at hand.
SignatureEmitted == pc \in {"func_emit", "func_end"}

(* C7.  The tracker is cleared after every function, imported              *)
(* or not, so a function's signature and body are rendered against layouts *)
(* found in that function only; cur_func is set to the function before    *)
(* anything of it is emitted, but it is never cleared: between functions   *)
(* and after Decompile has finished it still refers to the last function   *)
(* walked (it is null only before the first function).                     *)
C7_TrackerPerFunctionCurFuncKept ==
    /\ InFunction =>
          /\ cur_func = index + 1
          /\ \A e \in lst : e.func = cur_func
          /\ {e.local : e \in lst} = ent.structs
    /\ ~InFunction => lst = {}
    /\ SignatureEmitted =>
          (Contains(decl, <<"a", ":", "{", " ", "x", ":", "i", "n", "t", " ", "}">>) <=> ("a" \in ent.structs /\ ent.nparams >= 1))
    /\ pc = "func_end" /\ ~ent.imported /\ ent.nstats >= 1 =>
          (Contains(decl, <<"v", "a", "r", " ", "v", ":", "{", " ", "x", ":", "i", "n", "t", " ", "}">>) <=> BodyLocal \in ent.structs)
    /\ pc \in {"funcs", "done"} => cur_func = index
    /\ pc \in {"memories", "globals", "tables", "data"} => cur_func = 0

\* C7's case: the second function, whose first parameter has no layout, is emitted.
C7_Witness ==
    /\ pc = "func_end"
    /\ index = 1
    /\ ent.nparams >= 1
    /\ ent.structs = {BodyLocal}
    /\ ent.nstats >= 1

(* C7 as stated: cur_func is cleared after the function's emission, so it  *)
(* refers to no function between functions and after Decompile finishes.   *)
C7_Original ==
    /\ InFunction =>
          /\ cur_func = index + 1
          /\ \A e \in lst : e.func = cur_func
    /\ ~InFunction => lst = {}
    /\ ~InFunction => cur_func = 0

\* The declaration of the entity at hand is complete.
DeclComplete ==
    \/ ent.kind \in {"memory", "global", "table"}
    \/ ent.kind = "func" /\ pc \in {"funcs", "done"}

(* C9.  The form of a declaration is decided by the import status alone:   *)
(* imported, it carries "import " and ends with ';', with no limits, no    *)
(* initializer and no body, and no AST or tracker run for a function; not  *)
(* imported, a memory or table carries its limits, a global its " = "      *)
(* initializer, a function its " {" body "}"; "export " precedes "import ".*)
C9_ImportDecidesForm ==
    DeclComplete =>
        /\ ent.exported <=> StartsWith(decl, <<"e", "x", "p", "o", "r", "t", " ">>)
        /\ ent.imported <=> Contains(decl, <<"i", "m", "p", "o", "r", "t", " ">>)
        /\ ent.imported =>
              /\ StartsWith(decl, (IF ent.exported THEN <<"e", "x", "p", "o", "r", "t", " ">> ELSE <<>>) \o <<"i", "m", "p", "o", "r", "t", " ">>)
              /\ EndsWith(decl, IF ent.kind = "func" THEN <<";", "\n", "\n">> ELSE <<";", "\n">>)
              /\ ~Contains(decl, <<"(", "i", "n", "i", "t", "i", "a", "l", ":", " ">>)
              /\ ~Contains(decl, <<"(", "m", "i", "n", ":", " ">>)
              /\ ~Contains(decl, <<" ", "=", " ">>)
              /\ ~Contains(decl, <<"{">>)
              /\ ent.kind = "func" => ~ent.constructed /\ ~ent.tracked
        /\ ~ent.imported =>
              /\ ent.kind = "memory" => EndsWith(decl, <<"(", "i", "n", "i", "t", "i", "a", "l", ":", " ", "1", ",", " ", "m", "a", "x", ":", " ", "2", ")", ";", "\n">>)
              /\ ent.kind = "table" => EndsWith(decl, <<"(", "m", "i", "n", ":", " ", "1", ",", " ", "m", "a", "x", ":", " ", "2", ")", ";", "\n">>)
              /\ ent.kind = "global" => EndsWith(decl, <<" ", "=", " ">> \o InitExp \o <<";", "\n">>)
              /\ ent.kind = "func" =>
                    /\ Contains(decl, <<" ", "{", "\n">>)
                    /\ EndsWith(decl, <<"}", "\n", "\n">>)
                    /\ ~Contains(decl, <<";", "\n", "\n">>)
                    /\ ent.constructed /\ ent.tracked

\* C9's case: a function both exported and imported has been declared.
C9_Witness ==
    /\ DeclComplete
    /\ ent.kind = "func"
    /\ ent.imported
    /\ ent.exported
    /\ ent.nparams >= 1

----------------------------------------------------------------------------
(* Linearity of the rendering in the children.                             *)

\* A text without its spaces and line breaks.
NoSpace(text) == SelectSeq(text, LAMBDA c : c \notin {" ", "\n"})

\* The text of a Value, whitespace removed: layout does not count.
Text(val) == NoSpace(Lines(val.v))

\* The text of a child that BracketIfNeeded is applied to.
Bracketed(val) ==
    IF val.needs_bracketing THEN <<"(">> \o Text(val) \o <<")">> ELSE Text(val)

\* The children's texts in child order, sep between two of them.
RECURSIVE Joined(_, _)
Joined(a, sep) ==
    IF a = <<>> THEN <<>>
    ELSE IF Len(a) = 1 THEN Text(a[1])
    ELSE Text(a[1]) \o sep \o Joined(Tail(a), sep)

\* The statements in order, each with the terminator the Statements case gives it.
RECURSIVE Terminated(_)
Terminated(a) ==
    IF a = <<>> THEN <<>>
    ELSE Text(a[1]) \o (IF Back(Text(a[1])) # "}" THEN <<";">> ELSE <<>>)
           \o Terminated(Tail(a))

\* What a node of kind op is when every child's text is in it once, in child
\* order, between the affixes of the kind.
Linear(op, a) ==
    CASE op = "Set" -> <<"x", "=">> \o Text(a[1])
      [] op = "Binary" -> Bracketed(a[1]) \o <<"+">> \o Bracketed(a[2])
      [] op = "Unary" -> NoSpace(UnaryPrefix) \o Text(a[1]) \o <<")">>
      [] op = "Load" -> Bracketed(a[1]) \o NoSpace(Access)
      [] op = "Store" -> Bracketed(a[1]) \o NoSpace(Access) \o <<"=">> \o Bracketed(a[2])
      [] op = "If" -> <<"i", "f", "(">> \o Text(a[1]) \o <<")", "{">> \o Text(a[2]) \o <<"}">>
                        \o (IF Len(a) = 3
                            THEN <<"e", "l", "s", "e", "{">> \o Text(a[3]) \o <<"}">>
                            ELSE <<>>)
      [] op = "Block" -> NoSpace(BlockName \o Label) \o <<"{">> \o Text(a[1]) \o <<"}">>
      [] op = "BrIf" -> NoSpace(BrIfPrefix) \o Text(a[1]) \o NoSpace(BrIfPostfix)
      [] op = "Return" -> NoSpace(ReturnPrefix) \o Joined(a, <<",">>)
      [] op = "Call" -> NoSpace(CallPrefix) \o Joined(a, <<",">>) \o <<")">>
      [] op = "Drop" -> Text(a[1])
      [] op = "DeclInit" -> NoSpace(DeclInitPrefix) \o Text(a[1])
      [] op = "Statements" -> Terminated(a)
      [] OTHER -> <<>>

(* C11.  Rendering is linear in the children: DecompileExpr on a node with *)
(* the children its kind takes returns a Value, and in that Value the text *)
(* of every rendered child appears exactly once, the children in their     *)
(* left-to-right order, between the affixes of the node's kind; no         *)
(* dispatch case drops, duplicates or reorders a child, at any width.      *)
C11_LinearInChildren ==
    /\ crashed = {}
    /\ last.op \notin {"none", "Get"} =>
          \A w \in Widths : Text(last.res.val[w]) = Linear(last.op, Vals(last.args, w))

\* C11 for every node but an If that reads a line of a Value that has none.
C11_LinearUnlessPastEnd ==
    last.op \notin {"none", "Get"} =>
        \A w \in Widths :
            \/ last.op = "If" /\ IfReadsPastEnd(Vals(last.args, w), w)
            \/ Text(last.res.val[w]) = Linear(last.op, Vals(last.args, w))

====
